---- MODULE Spec2Model ----
(***************************************************************************)
(* Job orchestration and result assembly of the Vision repository.         *)
(*                                                                         *)
(* Spec     the VisionZones service of src/app: the Job Registry           *)
(*          (jobs.py), the /start dispatcher, the local worker pool and    *)
(*          the queue hand-off (main.py, queue.py, worker.py), the export  *)
(*          pipeline (_start_sync_job, ensure_ee, run_zone_export) and     *)
(*          the /status and /download-zip handlers.                        *)
(* SpecZip  the archive builders as functions of a bucket listing:         *)
(*          zip_gcs_prefix (src/app/storage.py) and the index-scoped       *)
(*          download_zip of the indices exporter (src/main.py).            *)
(* SpecExporter  the Sentinel-2 Indices Exporter of src/main.py (and its   *)
(*          predecessor src/app.py): /start launching one export task per  *)
(*          year, month and index, the tasks resolving in the backend,     *)
(*          /status and /download-zip reading the bucket.                  *)
(* SpecPool  the VisionZones service with REDIS_URL unset: every           *)
(*          submission goes to the two-thread pool.                        *)
(* SpecPoolFair  the pool under fair scheduling of the handler and of the  *)
(*          pool's threads (liveness).                                     *)
(* SpecStream  the archive generators one step at a time, as a streamed    *)
(*          response consumes them.                                        *)
(* SpecRegistry  the JobRegistry (src/app/jobs.py) called from several     *)
(*          threads, update taken one assignment at a time.                *)
(*                                                                         *)
(* Threads interleave at every access to shared state (the registry, the   *)
(* pool's work queue, the _ee_initialized flag); steps of one thread that  *)
(* touch only its own locals are merged with the next shared access.       *)
(***************************************************************************)
EXTENDS Integers, Sequences, FiniteSets, TLC

VARIABLES
    clock,          \* datetime.utcnow(), in whole seconds
    redisUrl,       \* os.environ REDIS_URL is set (fixed for the process's life)
    redisUp,        \* the Redis server behind REDIS_URL accepts connections
    jobs,           \* JobRegistry._jobs of the request-handling process
    lastWriter,     \* history: who last set jobs[id]["state"]
    req,            \* the /start handler running on the event loop
    accepted,       \* history: number of /start requests that got a job id
    workQueue,      \* ThreadPoolExecutor's queue of submitted _task closures
    workers,        \* the pool's threads: where each is in _start_sync_job
    eeInitialized,  \* ee_client._ee_initialized of the request-handling process
    rqQueue,        \* the "visionzones" queue in Redis
    wjobs,          \* JobRegistry._jobs of the separate worker process
    taskLog,        \* history: terminal states reported by the remote tasks of a job id
    lastExec,       \* history: the last finished run of _start_sync_job
    fresh,          \* history: job ids whose /start returned and were not polled since
    resp,           \* the last HTTP response sent
    bucket,         \* the objects of the bucket, in listing order
    archive,        \* the last archive built from a listing
    exJobs,         \* history: job ids generated by the indices exporter's /start
    exTasks,        \* the export tasks the indices exporter has started
    regProv,        \* history: the registry call that last wrote each field of a record
    regSeq,         \* history: number of registry writes begun so far
    regCall,        \* history: the last registry call that returned
    runs,           \* history: per accepted submission, the runs of the pipeline
                    \* begun for it and the remote tasks started for it
    zipRun          \* the archive generator being consumed by a streamed response

vars == <<clock, redisUrl, redisUp, jobs, lastWriter, req, accepted, workQueue, workers,
          eeInitialized, rqQueue, wjobs, taskLog, lastExec, fresh, resp, bucket,
          archive, exJobs, exTasks, regProv, regSeq, regCall, runs,
          zipRun>>

regVars == <<regProv, regSeq, regCall>>

(***************************************************************************)
(* Bounds of the model.                                                    *)
(***************************************************************************)
MaxClock == 1
MaxStarts == 2

(***************************************************************************)
(* Program constants.                                                      *)
(***************************************************************************)
PoolSize == 2

Seconds == 0..MaxClock
Workers == 1..PoolSize

\* job_id = f"job_{datetime.utcnow().strftime('%Y-%m-%d_%H%M%S')}": the clock
\* truncated to the second.
JobIdAt(t) == "job_" \o ToString(t)

JobIds == {JobIdAt(t) : t \in Seconds}
UnknownId == "job_x"           \* an identifier no /start ever generates
AnyId == JobIds \cup {UnknownId}

\* class JobState(Enum)
QUEUED == "QUEUED"
RUNNING == "RUNNING"
SUCCEEDED == "SUCCEEDED"
FAILED == "FAILED"
JobState == {QUEUED, RUNNING, SUCCEEDED, FAILED}
Terminal == {SUCCEEDED, FAILED}

\* dict.get's None
NoJob == [none |-> TRUE]

(***************************************************************************)
(* JobRegistry (src/app/jobs.py), as functions of the _jobs dict.          *)
(***************************************************************************)
\* datetime.utcnow().isoformat() + "Z" has microsecond resolution; the value
\* of the two timestamp fields is not modelled beyond their being written.
UtcNow == "utcnow"

RegistryCreate(reg, job_id) ==
    [reg EXCEPT ![job_id] = [job_id |-> job_id, state |-> QUEUED,
                             message |-> "Queued",
                             created_at |-> UtcNow, updated_at |-> UtcNow]]

RegistryUpdateUpsert(reg, job_id, state, message) ==
    [reg EXCEPT ![job_id] = [job_id |-> job_id, state |-> state,
                             message |-> message,
                             created_at |-> UtcNow, updated_at |-> UtcNow]]
RegistryUpdate(reg, job_id, state, message) ==
    IF reg[job_id] = NoJob
    THEN reg
    ELSE [reg EXCEPT ![job_id] = [@ EXCEPT !.state = state,
                                           !.message = message,
                                           !.updated_at = UtcNow]]

RegistryGet(reg, job_id) == reg[job_id]

\* History only: the writer of a record's state, kept beside the registry.
WriterAfter(reg, job_id, who) ==
    IF reg[job_id] = NoJob THEN lastWriter ELSE [lastWriter EXCEPT ![job_id] = who]

\* History only: for each field of a record, the number of the registry
\* write (create or update, in the order they began) that last assigned it;
\* obj numbers the dict object that create stored under the id.
NoProv == [obj |-> 0, state |-> 0, message |-> 0, updated_at |-> 0]
NoCall == [op |-> "none", job_id |-> "", found |-> FALSE, raised |-> FALSE,
           record |-> NoJob, prov |-> NoProv]

(***************************************************************************)
(* HTTP responses.                                                         *)
(***************************************************************************)
NoResp == [ep |-> "none", code |-> 0, job_id |-> "", state |-> "",
           detail |-> "", first |-> FALSE, zip |-> FALSE, nlisted |-> 0,
           names |-> <<>>]

Response(ep, code, job_id, state, detail) ==
    [NoResp EXCEPT !.ep = ep, !.code = code, !.job_id = job_id,
                   !.state = state, !.detail = detail]

\* A pool thread outside _start_sync_job; the /start handler between requests.
Idle == [pc |-> "idle", job_id |-> "", geojson |-> "", sub |-> 0]
NoExec == [proc |-> "none", job_id |-> "", exc |-> "", issued |-> <<>>,
           escaped |-> FALSE, sub |-> 0]

\* resp and lastExec log the step just taken, for the properties to read; no
\* step of the program reads them.  The step after a logged one only clears
\* the log (Deliver), so that logs never combine with later states.
Quiet == resp = NoResp /\ lastExec = NoExec

\* What /start lets through to the pipeline: JSON that is a geometry, and JSON
\* that is not (json.loads accepts it, _geom_from_geojson raises on it).
Payloads == {"valid", "malformed"}
IdleReq == [pc |-> "idle", job_id |-> "", geojson |-> "", sub |-> 0]

(***************************************************************************)
(* Object keys are sequences of path atoms ("/" and strings without "/"),  *)
(* with the str operations the archive builders use on them.               *)
(***************************************************************************)
\* str.startswith
StartsWith(s, prefix) ==
    /\ Len(prefix) <= Len(s)
    /\ SubSeq(s, 1, Len(prefix)) = prefix

\* str.endswith("/")
EndsWithSlash(s) == Len(s) > 0 /\ s[Len(s)] = "/"

\* s[n:]
DropFirst(s, n) == SubSeq(s, n + 1, Len(s))

\* s.split("/")
RECURSIVE SplitSlash(_)
SplitSlash(s) ==
    IF \A i \in 1..Len(s) : s[i] # "/"
    THEN <<s>>
    ELSE LET i == CHOOSE j \in 1..Len(s) :
                     s[j] = "/" /\ \A k \in 1..(j - 1) : s[k] # "/" IN
         <<SubSeq(s, 1, i - 1)>> \o SplitSlash(DropFirst(s, i))

\* "/".join(parts)
RECURSIVE JoinSlash(_)
JoinSlash(parts) ==
    IF parts = <<>> THEN <<>>
    ELSE IF Len(parts) = 1 THEN parts[1]
    ELSE parts[1] \o <<"/">> \o JoinSlash(Tail(parts))

\* f"{job_id}/" and f"{job_id}/{index}/" (index: <<>> when the request has none)
PrefixOf(job_id, index) ==
    IF index = <<>> THEN job_id \o <<"/">>
    ELSE job_id \o <<"/">> \o index \o <<"/">>

\* The object store's prefix listing (client.list_blobs / bucket.list_blobs).
ListBlobs(bkt, prefix) == SelectSeq(bkt, LAMBDA key : StartsWith(key, prefix))

\* storage.py line 18: b.name[len(prefix):] if b.name.startswith(prefix) else b.name
ArcName(name, prefix) ==
    IF StartsWith(name, prefix) THEN DropFirst(name, Len(prefix)) ELSE name

\* storage.py lines 14-19: the loop of zip_gcs_prefix over the listed blobs.
\* An entry is the archive name with the object whose bytes it holds.
RECURSIVE ZipGcsPrefix(_, _)
ZipGcsPrefix(blobs, prefix) ==
    IF blobs = <<>> THEN <<>>
    ELSE (IF EndsWithSlash(Head(blobs))
          THEN <<>>
          ELSE <<[name |-> ArcName(Head(blobs), prefix), key |-> Head(blobs)]>>)
         \o ZipGcsPrefix(Tail(blobs), prefix)

\* src/main.py line 290 (src/app.py line 180): "/".join(b.name.split("/")[1:])
LegacyArcNameBasename(name) == SplitSlash(name)[Len(SplitSlash(name))]
LegacyArcName(name) == JoinSlash(Tail(SplitSlash(name)))

\* src/main.py lines 289-291: the loop of download_zip.stream.
RECURSIVE LegacyZip(_)
LegacyZip(blobs) ==
    IF blobs = <<>> THEN <<>>
    ELSE <<[name |-> LegacyArcName(Head(blobs)), key |-> Head(blobs)]>>
         \o LegacyZip(Tail(blobs))

\* No generator is alive.  A live one holds the listing (blobs), the index of
\* the next blob of its loop (i), the entries written to its BytesIO (mem) and
\* how many of them the response has been handed so far (sent).
NoZipRun == [pc |-> "none", fn |-> "none", prefix |-> <<>>, blobs |-> <<>>,
             i |-> 0, mem |-> <<>>, sent |-> 0]

NoArchive == [fn |-> "none", job_id |-> <<>>, index |-> <<>>, code |-> 0,
              listed |-> <<>>, entries |-> <<>>]

(***************************************************************************)
(* Initial state: the module-level objects as constructed at import.       *)
(* main.py imports jobs_registry from jobs.py, which defines the class     *)
(* only; the registry is one JobRegistry() per process (an empty _jobs).   *)
(***************************************************************************)
Init ==
    /\ clock = 0
    /\ redisUrl \in BOOLEAN
    /\ redisUp = TRUE
    /\ jobs = [id \in AnyId |-> NoJob]
    /\ lastWriter = [id \in AnyId |-> "none"]
    /\ req = IdleReq
    /\ accepted = 0
    /\ workQueue = <<>>
    /\ workers = [w \in Workers |-> Idle]
    /\ eeInitialized = FALSE
    /\ rqQueue = <<>>
    /\ wjobs = [id \in AnyId |-> NoJob]
    /\ taskLog = [id \in AnyId |-> {}]
    /\ lastExec = NoExec
    /\ fresh = {}
    /\ resp = NoResp
    /\ bucket = <<>>
    /\ archive = NoArchive
    /\ exJobs = {}
    /\ exTasks = <<>>
    /\ regProv = [id \in AnyId |-> NoProv]
    /\ regSeq = 0
    /\ regCall = NoCall
    /\ runs = <<>>
    /\ zipRun = NoZipRun

(***************************************************************************)
(* POST /start (src/app/main.py, start).  An async handler: after its one  *)
(* await (file.read()) it runs on the event loop without yielding, so no   *)
(* two /start bodies interleave; pool threads and the threadpool-run       *)
(* handlers (/status, /download-zip) do interleave with it.                *)
(***************************************************************************)

\* Lines 81-93: the upload is neither KMZ/KML nor JSON (400), or EE_PROJECT /
\* GCS_BUCKET is unset (500).  Nothing was created.
StartReject ==
    /\ Quiet
    /\ req.pc = "idle"
    /\ \E code \in {400, 500} :
          resp' = Response("start", code, "", "",
                           IF code = 400 THEN "Invalid input" ELSE "Missing env var")
    /\ UNCHANGED <<clock, redisUrl, redisUp, jobs, lastWriter, req, accepted, workQueue,
                   workers, eeInitialized, rqQueue, wjobs, taskLog, fresh, bucket,
                   archive, exJobs, exTasks, regVars, runs, zipRun>>
    /\ lastExec' = NoExec

\* Lines 95-96: any upload that decodes as JSON is accepted, whether or not
\* _geom_from_geojson will be able to resolve it.  limit caps the number of
\* submissions a run of the model accepts.
NoRuns == [begun |-> 0, tasks |-> 0]

StartCreateWithin(limit) ==
    /\ Quiet
    /\ req.pc = "idle"
    /\ accepted < limit
    /\ \E geojson \in Payloads :
          req' = [pc |-> "created", job_id |-> JobIdAt(clock), geojson |-> geojson,
                  sub |-> accepted + 1]
    /\ jobs' = RegistryCreate(jobs, JobIdAt(clock))
    /\ lastWriter' = [lastWriter EXCEPT ![JobIdAt(clock)] = "create"]
    /\ accepted' = accepted + 1
    /\ runs' = Append(runs, NoRuns)
    /\ UNCHANGED <<clock, redisUrl, redisUp, workQueue, workers, eeInitialized, rqQueue,
                   wjobs, taskLog, fresh, bucket, archive, exJobs, exTasks,
                   regVars, zipRun>>
    /\ resp' = NoResp
    /\ lastExec' = NoExec

StartCreate == StartCreateWithin(MaxStarts)

\* Line 101: the state the dispatcher sets once the job is on the queue.
DispatchStateDone == SUCCEEDED
DispatchState == RUNNING

\* src/app/queue.py line 22, retry=3: the attempts the queue may add to the
\* first one when the job function raises.
RetryMax == 3

\* queue.get_queue(): a Queue object whenever REDIS_URL is set.  Neither
\* Redis.from_url nor Queue(...) opens a connection.
get_queue == redisUrl

\* Lines 98-105.  enqueue() is the first call that talks to Redis: with the
\* queue unreachable it raises, the handler ends with a server error and the
\* record made by create stays as it is.  Once enqueue() returned the job is
\* in Redis, where the worker process can take it before the handler's next
\* line (StartMarkRunning) runs.
StartDispatch ==
    /\ Quiet
    /\ req.pc = "created"
    /\ \/ /\ get_queue
          /\ redisUp
          /\ rqQueue' = Append(rqQueue, [job_id |-> req.job_id,
                                         geojson |-> req.geojson,
                                         sub |-> req.sub,
                                         retries_left |-> RetryMax])
          /\ req' = [req EXCEPT !.pc = "enqueued"]
          /\ resp' = NoResp
          /\ UNCHANGED <<workQueue, jobs, lastWriter>>
       \/ /\ get_queue
          /\ ~redisUp
          /\ resp' = Response("start", 500, req.job_id, "", "queue unreachable")
          /\ req' = IdleReq
          /\ UNCHANGED <<rqQueue, jobs, lastWriter, workQueue>>
       \/ /\ ~get_queue
          /\ workQueue' = Append(workQueue, [job_id |-> req.job_id,
                                             geojson |-> req.geojson,
                                             sub |-> req.sub])
          /\ req' = [req EXCEPT !.pc = "dispatched"]
          /\ resp' = NoResp
          /\ UNCHANGED <<rqQueue, jobs, lastWriter>>
    /\ lastExec' = NoExec
    /\ UNCHANGED <<clock, redisUrl, redisUp, accepted, workers, eeInitialized,
                   wjobs, taskLog, fresh, bucket, archive, exJobs, exTasks,
                   regVars, runs, zipRun>>

\* Line 101: jobs.update(job_id, JobState.RUNNING, "Queued on worker").
StartMarkRunning ==
    /\ Quiet
    /\ req.pc = "enqueued"
    /\ jobs' = RegistryUpdate(jobs, req.job_id, DispatchState, "Queued on worker")
    /\ lastWriter' = WriterAfter(jobs, req.job_id, "dispatch")
    /\ req' = [req EXCEPT !.pc = "dispatched"]
    /\ resp' = NoResp
    /\ lastExec' = NoExec
    /\ UNCHANGED <<clock, redisUrl, redisUp, accepted, workQueue, workers,
                   eeInitialized, rqQueue, wjobs, taskLog, fresh, bucket, archive,
                   exJobs, exTasks, regVars, runs, zipRun>>

\* Line 107: StartResponse(job_id=job_id, status=JobState.QUEUED.value).
StartResponseStatusFromRegistry(reg, job_id) == reg[job_id].state
StartResponseStatus(reg, job_id) == QUEUED

\* Line 107 follows executor.submit / enqueue directly: nothing is awaited.
StartMayReturn(r) == r.pc = "dispatched"

StartReturn ==
    /\ Quiet
    /\ StartMayReturn(req)
    /\ resp' = Response("start", 200, req.job_id,
                        StartResponseStatus(jobs, req.job_id), "")
    /\ fresh' = fresh \cup {req.job_id}
    /\ req' = IdleReq
    /\ UNCHANGED <<clock, redisUrl, redisUp, jobs, lastWriter, accepted, workQueue, workers,
                   eeInitialized, rqQueue, wjobs, taskLog, bucket, archive, exJobs, exTasks,
                   regVars, runs, zipRun>>
    /\ lastExec' = NoExec

(***************************************************************************)
(* The export pipeline: _start_sync_job (src/app/main.py), ensure_ee       *)
(* (src/app/ee_client.py) and run_zone_export (src/app/zones.py), run by a *)
(* thread of executor = ThreadPoolExecutor(max_workers=2).                 *)
(***************************************************************************)

\* Non-active states an Earth Engine task reports.
TaskTerminal == {"COMPLETED", "FAILED", "CANCELLED"}

\* zones.py lines 82-84: state = status().get("state"); anything but
\* COMPLETED raises RuntimeError.  "none": run_zone_export returned.
ExportResult(taskState) ==
    IF taskState = "COMPLETED" THEN "none"
    ELSE "Raster export failed: " \o taskState

\* main.py lines 111-117: the try/except around the body.  The updates issued
\* once the body ended with exception exc ("none": it returned).
TerminalUpdatesNoExcept(exc) ==
    IF exc = "none"
    THEN <<[state |-> SUCCEEDED, message |-> "Export complete"]>>
    ELSE <<>>
TerminalUpdates(exc) ==
    IF exc = "none"
    THEN <<[state |-> SUCCEEDED, message |-> "Export complete"]>>
    ELSE <<[state |-> FAILED, message |-> "Error: " \o exc]>>

\* except Exception: nothing raised by the body leaves _start_sync_job.
EscapesRaised(exc) == exc # "none"
Escapes(exc) == FALSE

RECURSIVE ApplyUpdates(_, _, _)
ApplyUpdates(reg, job_id, ups) ==
    IF ups = <<>> THEN reg
    ELSE ApplyUpdates(RegistryUpdate(reg, job_id, Head(ups).state,
                                     Head(ups).message),
                      job_id, Tail(ups))

\* The end of one run of _start_sync_job on pool thread w.
Finish(w, exc) ==
    LET id == workers[w].job_id
        ups == TerminalUpdates(exc) IN
    /\ jobs' = ApplyUpdates(jobs, id, ups)
    /\ lastWriter' = IF ups = <<>> THEN lastWriter
                     ELSE WriterAfter(jobs, id, "pipeline")
    /\ lastExec' = [proc |-> "pool", job_id |-> id, exc |-> exc,
                    issued |-> ups, escaped |-> Escapes(exc),
                    sub |-> workers[w].sub]
    /\ workers' = [workers EXCEPT ![w] = Idle]

\* A free pool thread takes the oldest work item and enters _start_sync_job:
\* (the pool's threads are interchangeable: the lowest-numbered free one is
\* taken to be the one that wakes)
\* line 110, jobs.update(job_id, RUNNING, "Initializing Earth Engine").
RunBegin(w) ==
    /\ Quiet
    /\ workers[w].pc = "idle"
    /\ \A v \in Workers : v < w => workers[v].pc # "idle"
    /\ workQueue # <<>>
    /\ workQueue' = Tail(workQueue)
    /\ workers' = [workers EXCEPT ![w] = [pc |-> "init",
                                          job_id |-> Head(workQueue).job_id,
                                          geojson |-> Head(workQueue).geojson,
                                          sub |-> Head(workQueue).sub]]
    /\ runs' = [runs EXCEPT ![Head(workQueue).sub].begun = @ + 1]
    /\ jobs' = RegistryUpdate(jobs, Head(workQueue).job_id, RUNNING,
                              "Initializing Earth Engine")
    /\ lastWriter' = WriterAfter(jobs, Head(workQueue).job_id, "pipeline")
    /\ UNCHANGED <<clock, redisUrl, redisUp, req, accepted, eeInitialized, rqQueue, wjobs,
                   taskLog, fresh, bucket, archive, exJobs, exTasks, regVars, zipRun>>
    /\ resp' = NoResp
    /\ lastExec' = NoExec

\* ensure_ee lines 11-12: the read of _ee_initialized.
EnsureEECheck(w) ==
    /\ Quiet
    /\ workers[w].pc = "init"
    /\ workers' = [workers EXCEPT ![w].pc = IF eeInitialized THEN "export" ELSE "ee"]
    /\ UNCHANGED <<clock, redisUrl, redisUp, jobs, lastWriter, req, accepted, workQueue,
                   eeInitialized, rqQueue, wjobs, taskLog, fresh, bucket, archive, exJobs, exTasks,
                   regVars, runs, zipRun>>
    /\ resp' = NoResp
    /\ lastExec' = NoExec

\* ensure_ee lines 14-33: ee.Initialize, which may raise (credentials, network),
\* then _ee_initialized = True.
EnsureEEInit(w) ==
    /\ Quiet
    /\ workers[w].pc = "ee"
    /\ \/ /\ eeInitialized' = TRUE
          /\ workers' = [workers EXCEPT ![w].pc = "export"]
          /\ UNCHANGED <<jobs, lastWriter>>
          /\ lastExec' = NoExec
       \/ /\ Finish(w, "EE init failed")
          /\ UNCHANGED eeInitialized
    /\ UNCHANGED <<clock, redisUrl, redisUp, req, accepted, workQueue, rqQueue, wjobs,
                   taskLog, fresh, bucket, archive, exJobs, exTasks, regVars, runs, zipRun>>
    /\ resp' = NoResp

\* run_zone_export lines 35-75: _geom_from_geojson raises on a payload that is
\* no geometry; building the export and zone_tif_task.start() may raise; else
\* the one remote task of the job is started.
ExportStart(w) ==
    /\ Quiet
    /\ workers[w].pc = "export"
    /\ \/ /\ workers[w].geojson = "malformed"
          /\ Finish(w, "invalid geometry")
          /\ UNCHANGED runs
       \/ /\ workers[w].geojson = "valid"
          /\ Finish(w, "task start failed")
          /\ UNCHANGED runs
       \/ /\ workers[w].geojson = "valid"
          /\ workers' = [workers EXCEPT ![w].pc = "poll"]
          /\ runs' = [runs EXCEPT ![workers[w].sub].tasks = @ + 1]
          /\ UNCHANGED <<jobs, lastWriter>>
          /\ lastExec' = NoExec
    /\ UNCHANGED <<clock, redisUrl, redisUp, req, accepted, workQueue, eeInitialized,
                   rqQueue, wjobs, taskLog, fresh, bucket, archive, exJobs, exTasks,
                   regVars, zipRun>>
    /\ resp' = NoResp

\* run_zone_export lines 79-84 and main.py lines 115-117: the poll that finds
\* the task no longer active (while it is active the thread only sleeps), or a
\* poll that raises.
Poll(w) ==
    /\ Quiet
    /\ workers[w].pc = "poll"
    /\ \/ \E taskState \in TaskTerminal :
             /\ taskLog' = [taskLog EXCEPT ![workers[w].job_id] = @ \cup {taskState}]
             /\ Finish(w, ExportResult(taskState))
       \/ /\ Finish(w, "poll failed")
          /\ UNCHANGED taskLog
    /\ UNCHANGED <<clock, redisUrl, redisUp, req, accepted, workQueue, eeInitialized,
                   rqQueue, wjobs, fresh, bucket, archive, exJobs, exTasks,
                   regVars, runs, zipRun>>
    /\ resp' = NoResp

(***************************************************************************)
(* The separate worker process (src/app/worker.py): it imports the same    *)
(* modules, so it runs _start_sync_job against its own jobs_registry, in   *)
(* which no record was ever created.  The queue's job_timeout (enqueue,    *)
(* src/app/queue.py line 22) ends a run that lasts too long by raising in  *)
(* it, which the body's except clause turns into the FAILED update.        *)
(***************************************************************************)
\* run_zone_export line 75 precedes the polling: the exceptions of a run
\* that had started its remote task.
TaskStartedBefore(exc) ==
    exc \notin {"EE init failed", "invalid geometry", "task start failed"}

\* The queue's retry (enqueue, src/app/queue.py line 22): a job whose function
\* raised is put back on the queue while it has attempts left; a job whose
\* function returned is finished.
AfterRun(queue, item, raised) ==
    IF raised /\ item.retries_left > 0
    THEN Append(Tail(queue), [item EXCEPT !.retries_left = @ - 1])
    ELSE Tail(queue)

RqRun ==
    /\ Quiet
    /\ rqQueue # <<>>
    /\ \E exc \in {"none", "EE init failed", "task start failed", "poll failed",
                   "Raster export failed: FAILED", "job timeout"} :
          LET item == Head(rqQueue)
              id == item.job_id
              ups == <<[state |-> RUNNING, message |-> "Initializing Earth Engine"]>>
                     \o TerminalUpdates(exc) IN
          /\ wjobs' = ApplyUpdates(wjobs, id, ups)
          /\ rqQueue' = AfterRun(rqQueue, item, Escapes(exc))
          /\ runs' = [runs EXCEPT ![item.sub] =
                         [begun |-> @.begun + 1,
                          tasks |-> @.tasks + IF TaskStartedBefore(exc)
                                              THEN 1 ELSE 0]]
          /\ lastExec' = [proc |-> "rq", job_id |-> id, exc |-> exc,
                          issued |-> TerminalUpdates(exc), escaped |-> Escapes(exc),
                          sub |-> item.sub]
    /\ UNCHANGED <<clock, redisUrl, redisUp, jobs, lastWriter, req, accepted, workQueue,
                   workers, eeInitialized, taskLog, fresh, bucket, archive, exJobs, exTasks,
                   regVars, zipRun>>
    /\ resp' = NoResp

(***************************************************************************)
(* GET /status (src/app/main.py, status).                                  *)
(***************************************************************************)
Status(job_id) ==
    /\ Quiet
    /\ LET st == RegistryGet(jobs, job_id) IN
          resp' = IF st = NoJob
                  THEN Response("status", 404, job_id, "", "Unknown job_id")
                  ELSE [Response("status", 200, job_id, st.state, st.message)
                           EXCEPT !.first = job_id \in fresh]
    /\ fresh' = fresh \ {job_id}
    /\ UNCHANGED <<clock, redisUrl, redisUp, jobs, lastWriter, req, accepted, workQueue,
                   workers, eeInitialized, rqQueue, wjobs, taskLog, bucket,
                   archive, exJobs, exTasks, regVars, runs, zipRun>>
    /\ lastExec' = NoExec

(***************************************************************************)
(* GET /download-zip (src/app/main.py, download_zip).  The bucket is an    *)
(* external store: what is listed under the prefix is whatever it holds    *)
(* when the response body is produced.                                     *)
(***************************************************************************)
\* Line 131: st["state"] != JobState.SUCCEEDED.value raises the 409.
DownloadReady(st) == st.state = SUCCEEDED

\* What the bucket may hold under a job's prefix: nothing, the exported
\* raster, a directory placeholder.
BucketsOf(job_id) ==
    { <<>>,
      << <<job_id, "/", "zones_k5.tif">> >>,
      << <<job_id, "/">>, <<job_id, "/", "zones_k5.tif">> >> }

DownloadZip(job_id) ==
    /\ Quiet
    /\ \E bkt \in BucketsOf(job_id) :
          LET st == RegistryGet(jobs, job_id)
              prefix == PrefixOf(<<job_id>>, <<>>)
              blobs == ListBlobs(bkt, prefix)
              entries == ZipGcsPrefix(blobs, prefix) IN
          resp' = IF st = NoJob
                  THEN Response("download", 404, job_id, "", "Unknown job_id")
                  ELSE IF ~DownloadReady(st)
                  THEN Response("download", 409, job_id, st.state, "Job not ready")
                  ELSE [Response("download", 200, job_id, st.state, "")
                           EXCEPT !.zip = TRUE, !.nlisted = Len(blobs),
                                  !.names = [i \in 1..Len(entries) |-> entries[i].name]]
    /\ lastExec' = NoExec
    /\ UNCHANGED <<clock, redisUrl, redisUp, jobs, lastWriter, req, accepted,
                   workQueue, workers, eeInitialized, rqQueue, wjobs, taskLog,
                   fresh, bucket, archive, exJobs, exTasks, regVars, runs, zipRun>>

\* The environment: the Redis server goes away or comes back.
RedisFlip ==
    /\ Quiet
    /\ redisUrl
    /\ redisUp' = ~redisUp
    /\ resp' = NoResp
    /\ lastExec' = NoExec
    /\ UNCHANGED <<clock, redisUrl, jobs, lastWriter, req, accepted, workQueue,
                   workers, eeInitialized, rqQueue, wjobs, taskLog, fresh, bucket,
                   archive, exJobs, exTasks, regVars, runs, zipRun>>

Deliver ==
    /\ ~Quiet
    /\ resp' = NoResp
    /\ lastExec' = NoExec
    /\ UNCHANGED <<clock, redisUrl, redisUp, jobs, lastWriter, req, accepted,
                   workQueue, workers, eeInitialized, rqQueue, wjobs, taskLog,
                   fresh, bucket, archive, exJobs, exTasks, regVars, runs, zipRun>>

Tick ==
    /\ Quiet
    /\ clock < MaxClock
    /\ clock' = clock + 1
    /\ UNCHANGED <<redisUrl, redisUp, jobs, lastWriter, req, accepted, workQueue, workers,
                   eeInitialized, rqQueue, wjobs, taskLog, fresh,
                   bucket, archive, exJobs, exTasks, regVars, runs, zipRun>>
    /\ resp' = NoResp
    /\ lastExec' = NoExec

Next ==
    \/ Tick
    \/ StartReject
    \/ StartCreate
    \/ StartDispatch
    \/ StartMarkRunning
    \/ StartReturn
    \/ \E w \in Workers : RunBegin(w)
    \/ \E w \in Workers : EnsureEECheck(w)
    \/ \E w \in Workers : EnsureEEInit(w)
    \/ \E w \in Workers : ExportStart(w)
    \/ \E w \in Workers : Poll(w)
    \/ RqRun
    \/ \E job_id \in AnyId : Status(job_id)
    \/ \E job_id \in AnyId : DownloadZip(job_id)
    \/ RedisFlip
    \/ Deliver

Spec == Init /\ [][Next]_vars

(***************************************************************************)
(* SpecPool: the service with REDIS_URL unset, so that every submission    *)
(* goes to executor = ThreadPoolExecutor(max_workers=2); enough            *)
(* submissions are accepted for one to wait while both threads are busy.   *)
(***************************************************************************)
MaxPoolStarts == 3

InitPool == Init /\ ~redisUrl

PoolStartCreate == StartCreateWithin(MaxPoolStarts)

NextPool ==
    \/ Tick
    \/ PoolStartCreate
    \/ StartDispatch
    \/ StartReturn
    \/ \E w \in Workers : RunBegin(w)
    \/ \E w \in Workers : EnsureEECheck(w)
    \/ \E w \in Workers : EnsureEEInit(w)
    \/ \E w \in Workers : ExportStart(w)
    \/ \E w \in Workers : Poll(w)
    \/ \E job_id \in JobIds : Status(job_id)
    \/ Deliver

SpecPool == InitPool /\ [][NextPool]_vars

\* One submission more than the pool has threads: the least number with
\* which a job waits for a thread while others run ahead of it.
FairStarts == PoolSize + 1

FairStartCreate == StartCreateWithin(FairStarts)

\* The pool at work with no client polling: /start requests and the steps
\* of the pool's threads.
NextPoolRun ==
    \/ Tick
    \/ FairStartCreate
    \/ StartDispatch
    \/ StartReturn
    \/ \E w \in Workers : RunBegin(w)
    \/ \E w \in Workers : EnsureEECheck(w)
    \/ \E w \in Workers : EnsureEEInit(w)
    \/ \E w \in Workers : ExportStart(w)
    \/ \E w \in Workers : Poll(w)
    \/ Deliver

\* Fair scheduling.  The /start handler runs from create to submit without
\* awaiting; every pool thread that can take a step of _start_sync_job
\* eventually takes it; a started remote task eventually reports a
\* non-active state to its poll (Poll); a step's log is eventually cleared.
PoolFairness ==
    /\ WF_vars(Deliver)
    /\ WF_vars(StartDispatch)
    /\ \A w \in Workers :
          /\ WF_vars(RunBegin(w))
          /\ WF_vars(EnsureEECheck(w))
          /\ WF_vars(EnsureEEInit(w))
          /\ WF_vars(ExportStart(w))
          /\ WF_vars(Poll(w))

SpecPoolFair == InitPool /\ [][NextPoolRun]_vars /\ PoolFairness

(***************************************************************************)
(* SpecZip: the archive builders applied to bucket listings.               *)
(***************************************************************************)
MaxBlobs == 3

\* Keys in the order the store lists them (by key, "/" before letters and
\* upper case before lower case).  "a" and "b" are job ids, "N" and "E"
\* index folders.
KeyList == << <<"a", "/">>,
              <<"a", "/", "E", "/", "f">>,
              <<"a", "/", "N", "/">>,
              <<"a", "/", "N", "/", "f">>,
              <<"a", "/", "N", "/", "g">>,
              <<"a", "/", "f">>,
              <<"b", "/", "f">> >>

Range(seq) == {seq[i] : i \in 1..Len(seq)}

Buckets ==
    { SelectSeq(KeyList, LAMBDA key : key \in S) :
        S \in {T \in SUBSET Range(KeyList) : Cardinality(T) <= MaxBlobs} }

\* job_id is a query parameter: any string, "a/N" included.
ZipJobs == { <<"a">>, <<"b">>, <<"a", "/", "N">> }
ZipIndexes == { <<>>, <<"N">>, <<"E">> }

InitZip ==
    /\ clock = 0
    /\ redisUrl = FALSE
    /\ redisUp = TRUE
    /\ jobs = [id \in AnyId |-> NoJob]
    /\ lastWriter = [id \in AnyId |-> "none"]
    /\ req = IdleReq
    /\ accepted = 0
    /\ workQueue = <<>>
    /\ workers = [w \in Workers |-> Idle]
    /\ eeInitialized = FALSE
    /\ rqQueue = <<>>
    /\ wjobs = [id \in AnyId |-> NoJob]
    /\ taskLog = [id \in AnyId |-> {}]
    /\ lastExec = NoExec
    /\ fresh = {}
    /\ resp = NoResp
    /\ bucket \in Buckets
    /\ archive = NoArchive
    /\ exJobs = {}
    /\ exTasks = <<>>
    /\ regProv = [id \in AnyId |-> NoProv]
    /\ regSeq = 0
    /\ regCall = NoCall
    /\ runs = <<>>
    /\ zipRun = NoZipRun

\* zip_gcs_prefix(bucket_name, prefix=f"{job_id}/") as app/main.py calls it.
ZipPrefix(job_id) ==
    /\ LET prefix == PrefixOf(job_id, <<>>)
           blobs == ListBlobs(bucket, prefix) IN
       archive' = [fn |-> "zip_gcs_prefix", job_id |-> job_id, index |-> <<>>,
                   code |-> 200, listed |-> blobs,
                   entries |-> ZipGcsPrefix(blobs, prefix)]
    /\ UNCHANGED <<clock, redisUrl, redisUp, jobs, lastWriter, req, accepted,
                   workQueue, workers, eeInitialized, rqQueue, wjobs, taskLog,
                   lastExec, fresh, resp, bucket, exJobs, exTasks, regVars, runs, zipRun>>

\* download_zip(job_id, index) of the indices exporter (src/main.py lines
\* 275-297; src/app.py lines 169-186 is the same without index).
LegacyDownloadZip(job_id, index) ==
    /\ LET prefix == PrefixOf(job_id, index)
           blobs == ListBlobs(bucket, prefix) IN
       archive' = IF blobs = <<>>
                  THEN [fn |-> "download_zip", job_id |-> job_id, index |-> index,
                        code |-> 404, listed |-> blobs, entries |-> <<>>]
                  ELSE [fn |-> "download_zip", job_id |-> job_id, index |-> index,
                        code |-> 200, listed |-> blobs,
                        entries |-> LegacyZip(blobs)]
    /\ UNCHANGED <<clock, redisUrl, redisUp, jobs, lastWriter, req, accepted,
                   workQueue, workers, eeInitialized, rqQueue, wjobs, taskLog,
                   lastExec, fresh, resp, bucket, exJobs, exTasks, regVars, runs, zipRun>>

NextZip ==
    \/ \E job_id \in ZipJobs : ZipPrefix(job_id)
    \/ \E job_id \in ZipJobs, index \in ZipIndexes : LegacyDownloadZip(job_id, index)

SpecZip == InitZip /\ [][NextZip]_vars

(***************************************************************************)
(* SpecStream: the archive generators taken one step at a time, as the     *)
(* StreamingResponse consumes them: zip_gcs_prefix (src/app/storage.py)    *)
(* and download_zip.stream (src/main.py; iterfile in src/app.py).  Each    *)
(* writes every entry into one io.BytesIO and yields only after the        *)
(* ZipFile is closed.                                                      *)
(***************************************************************************)
StreamFrame ==
    UNCHANGED <<clock, redisUrl, redisUp, jobs, lastWriter, req, accepted,
                workQueue, workers, eeInitialized, rqQueue, wjobs, taskLog,
                lastExec, fresh, resp, bucket, archive, exJobs, exTasks, regVars,
                runs>>

\* The listing and mem = io.BytesIO(): storage.py lines 10-12 on the first
\* next() of the generator; src/main.py lines 281-287, where an empty listing
\* is the 404 of LegacyDownloadZip and no generator is made.
StreamOpen(fn, job_id, index) ==
    /\ zipRun = NoZipRun
    /\ fn = "zip_gcs_prefix" => index = <<>>
    /\ LET prefix == PrefixOf(job_id, index)
           blobs == ListBlobs(bucket, prefix) IN
       /\ fn = "download_zip" => blobs # <<>>
       /\ zipRun' = [pc |-> "loop", fn |-> fn, prefix |-> prefix, blobs |-> blobs,
                     i |-> 1, mem |-> <<>>, sent |-> 0]
    /\ StreamFrame

\* One iteration of "for b in blobs": storage.py lines 14-19 (a key ending
\* in "/" is skipped), src/main.py lines 289-291.  b.download_as_bytes() is
\* the whole object, zf.writestr appends it to mem.
StreamWrite ==
    /\ zipRun.pc = "loop"
    /\ zipRun.i <= Len(zipRun.blobs)
    /\ LET b == zipRun.blobs[zipRun.i]
           entry == IF zipRun.fn = "zip_gcs_prefix"
                    THEN [name |-> ArcName(b, zipRun.prefix), key |-> b]
                    ELSE [name |-> LegacyArcName(b), key |-> b] IN
       zipRun' = [zipRun EXCEPT
                     !.i = @ + 1,
                     !.mem = IF zipRun.fn = "zip_gcs_prefix" /\ EndsWithSlash(b)
                             THEN @ ELSE Append(@, entry)]
    /\ StreamFrame

\* The end of the with block and mem.seek(0): storage.py line 20,
\* src/main.py line 292.
StreamClose ==
    /\ zipRun.pc = "loop"
    /\ zipRun.i > Len(zipRun.blobs)
    /\ zipRun' = [zipRun EXCEPT !.pc = "yield"]
    /\ StreamFrame

\* One chunk handed to the response (storage.py line 21, src/main.py line
\* 293), taken to be the bytes of one entry.
StreamYield ==
    /\ zipRun.pc = "yield"
    /\ zipRun.sent < Len(zipRun.mem)
    /\ zipRun' = [zipRun EXCEPT !.sent = @ + 1]
    /\ StreamFrame

\* The generator is exhausted and mem is released.
StreamEnd ==
    /\ zipRun.pc = "yield"
    /\ zipRun.sent = Len(zipRun.mem)
    /\ zipRun' = NoZipRun
    /\ StreamFrame

NextStream ==
    \/ \E fn \in {"zip_gcs_prefix", "download_zip"}, job_id \in ZipJobs,
          index \in ZipIndexes : StreamOpen(fn, job_id, index)
    \/ StreamWrite
    \/ StreamClose
    \/ StreamYield
    \/ StreamEnd

SpecStream == InitZip /\ [][NextStream]_vars

(***************************************************************************)
(* SpecExporter: the Sentinel-2 Indices Exporter (src/main.py; src/app.py  *)
(* is the same service without exclude_classes, scale and index scoping).  *)
(* It keeps no registry: a job is the set of export tasks started under a  *)
(* job id and the objects they leave under the prefix job_id/.             *)
(***************************************************************************)
MaxExStarts == 1
MaxResolved == 2
MonthsPerYear == 12

\* job_id = datetime.datetime.utcnow().strftime("job_%Y%m%d_%H%M%S")
ExJobIdAt(t) == "job_" \o ToString(t)

\* f"{m:02d}"
Pad2(m) == IF m < 10 THEN "0" \o ToString(m) ELSE ToString(m)

\* prefix = f"{job_id}/{idx}/{idx}_{y}_{m:02d}"; the backend writes the
\* GeoTIFF at that prefix.
ExKey(job_id, idx, y, m) ==
    <<job_id, "/", idx, "/",
      idx \o "_" \o ToString(y) \o "_" \o Pad2(m) \o ".tif">>

\* What a request may ask for: start_year, end_year and the indices CSV
\* (all of them names of INDICES_DEFAULT; the CSV may name one twice).
YearRanges == { <<2023, 2023>>, <<2023, 2024>>, <<2024, 2023>> }
IdxLists == { <<"NDVI">>, <<"NDVI", "EVI">>, <<"NDVI", "NDVI">> }

NewTask(job_id, idx, y, m) ==
    [job_id |-> job_id, idx |-> idx, y |-> y, m |-> m, state |-> "RUNNING"]

\* for idx in idx_list: ... task.start()
RECURSIVE ForIdx(_, _, _, _)
ForIdx(job_id, y, m, idx_list) ==
    IF idx_list = <<>> THEN <<>>
    ELSE <<NewTask(job_id, Head(idx_list), y, m)>>
         \o ForIdx(job_id, y, m, Tail(idx_list))

\* for m in range(1, 13)
RECURSIVE ForMonth(_, _, _, _)
ForMonth(job_id, y, m, idx_list) ==
    IF m > MonthsPerYear THEN <<>>
    ELSE ForIdx(job_id, y, m, idx_list) \o ForMonth(job_id, y, m + 1, idx_list)

\* for y in range(int(start_year), int(end_year) + 1)
RECURSIVE ForYear(_, _, _, _)
ForYear(job_id, y, end_year, idx_list) ==
    IF y > end_year THEN <<>>
    ELSE ForMonth(job_id, y, 1, idx_list)
         \o ForYear(job_id, y + 1, end_year, idx_list)

\* Every key an export can write, in the order the store lists keys (by
\* name: job id, then index folder, then year and zero-padded month).
ExIndexSorted == <<"EVI", "NDVI">>
ExYearsSorted == <<2023, 2024>>
ExKeyOrder ==
    LET nI == Len(ExIndexSorted)
        nY == Len(ExYearsSorted) IN
    [i \in 1..((MaxClock + 1) * nI * nY * MonthsPerYear) |->
        LET k == i - 1 IN
        ExKey(ExJobIdAt(k \div (nI * nY * MonthsPerYear)),
              ExIndexSorted[((k \div (nY * MonthsPerYear)) % nI) + 1],
              ExYearsSorted[((k \div MonthsPerYear) % nY) + 1],
              (k % MonthsPerYear) + 1)]

\* The bucket after the backend wrote the keys (a rewritten key stays one
\* object).
PutObjects(bkt, keys) ==
    SelectSeq(ExKeyOrder, LAMBDA key : key \in Range(bkt) \cup keys)

ExQuiet == resp = NoResp /\ archive = NoArchive

InitExporter ==
    /\ clock = 0
    /\ redisUrl = FALSE
    /\ redisUp = TRUE
    /\ jobs = [id \in AnyId |-> NoJob]
    /\ lastWriter = [id \in AnyId |-> "none"]
    /\ req = IdleReq
    /\ accepted = 0
    /\ workQueue = <<>>
    /\ workers = [w \in Workers |-> Idle]
    /\ eeInitialized = FALSE
    /\ rqQueue = <<>>
    /\ wjobs = [id \in AnyId |-> NoJob]
    /\ taskLog = [id \in AnyId |-> {}]
    /\ lastExec = NoExec
    /\ fresh = {}
    /\ resp = NoResp
    /\ bucket = <<>>
    /\ archive = NoArchive
    /\ exJobs = {}
    /\ exTasks = <<>>
    /\ regProv = [id \in AnyId |-> NoProv]
    /\ regSeq = 0
    /\ regCall = NoCall
    /\ runs = <<>>
    /\ zipRun = NoZipRun

\* start_job lines 208-226: the boundary cannot be read, an index is not in
\* INDICES_DEFAULT, or exclude_classes is no CSV of integers (400).  No job id
\* was generated and no task started.
ExStartReject ==
    /\ ExQuiet
    /\ resp' = Response("exstart", 400, "", "", "Bad request")
    /\ UNCHANGED <<clock, redisUrl, redisUp, jobs, lastWriter, req, accepted,
                   workQueue, workers, eeInitialized, rqQueue, wjobs, taskLog,
                   lastExec, fresh, bucket, archive, exJobs, exTasks,
                   regVars, runs, zipRun>>

\* start_job lines 228-260.  The handler awaits nothing, so it runs whole on
\* the event loop; the loops start the tasks one after the other and none is
\* polled.  monthly_image or task.start() raising at iteration cut + 1 ends
\* the request with a server error, the tasks started before it left running.
\* The body returned carries the job id, the years and the index list; the
\* field started is history, the tasks this request started.
ExStart ==
    /\ ExQuiet
    /\ accepted < MaxExStarts
    /\ \E years \in YearRanges, idx_list \in IdxLists :
          LET job_id == ExJobIdAt(clock)
              plan == ForYear(job_id, years[1], years[2], idx_list) IN
          \E cut \in {0, 1, Len(plan)} \cap (0..Len(plan)) :
             /\ exTasks' = exTasks \o SubSeq(plan, 1, cut)
             /\ exJobs' = exJobs \cup {job_id}
             /\ resp' = (IF cut = Len(plan)
                         THEN Response("exstart", 200, job_id, "", "")
                         ELSE Response("exstart", 500, "", "", "task start failed"))
                        @@ [years |-> years, indices |-> idx_list,
                            started |-> SubSeq(plan, 1, cut)]
    /\ accepted' = accepted + 1
    /\ UNCHANGED <<clock, redisUrl, redisUp, jobs, lastWriter, req, workQueue,
                   workers, eeInitialized, rqQueue, wjobs, taskLog, lastExec,
                   fresh, bucket, archive, regVars, runs, zipRun>>

Resolved == {i \in 1..Len(exTasks) : exTasks[i].state # "RUNNING"}

\* The backend: a started export completes and its GeoTIFF is in the bucket.
TaskCompleted(i) ==
    /\ ExQuiet
    /\ exTasks[i].state = "RUNNING"
    /\ Cardinality(Resolved) < MaxResolved
    /\ exTasks' = [exTasks EXCEPT ![i].state = "COMPLETED"]
    /\ bucket' = PutObjects(bucket, {ExKey(exTasks[i].job_id, exTasks[i].idx,
                                            exTasks[i].y, exTasks[i].m)})
    /\ UNCHANGED <<clock, redisUrl, redisUp, jobs, lastWriter, req, accepted,
                   workQueue, workers, eeInitialized, rqQueue, wjobs, taskLog,
                   lastExec, fresh, resp, archive, exJobs, regVars, runs, zipRun>>

\* The backend: a started export fails and writes nothing.
TaskFailed(i) ==
    /\ ExQuiet
    /\ exTasks[i].state = "RUNNING"
    /\ Cardinality(Resolved) < MaxResolved
    /\ exTasks' = [exTasks EXCEPT ![i].state = "FAILED"]
    /\ UNCHANGED <<clock, redisUrl, redisUp, jobs, lastWriter, req, accepted,
                   workQueue, workers, eeInitialized, rqQueue, wjobs, taskLog,
                   lastExec, fresh, resp, bucket, archive, exJobs, regVars, runs, zipRun>>

\* The backend: every export of the job that is still running completes
\* (nothing of the exporter runs in between: it holds no handle to a task).
TasksAllCompleted(job_id) ==
    LET running == {i \in 1..Len(exTasks) :
                       exTasks[i].job_id = job_id /\ exTasks[i].state = "RUNNING"} IN
    /\ ExQuiet
    /\ running # {}
    /\ exTasks' = [i \in 1..Len(exTasks) |->
                      IF i \in running
                      THEN [exTasks[i] EXCEPT !.state = "COMPLETED"]
                      ELSE exTasks[i]]
    /\ bucket' = PutObjects(bucket, {ExKey(exTasks[i].job_id, exTasks[i].idx,
                                            exTasks[i].y, exTasks[i].m) :
                                        i \in running})
    /\ UNCHANGED <<clock, redisUrl, redisUp, jobs, lastWriter, req, accepted,
                   workQueue, workers, eeInitialized, rqQueue, wjobs, taskLog,
                   lastExec, fresh, resp, archive, exJobs, regVars, runs, zipRun>>

\* status lines 262-273: the number of objects listed under job_id/ (the
\* by_index breakdown of the same listing is left out), whatever the job id;
\* the body carries no state.
ExStatus(job_id) ==
    /\ ExQuiet
    /\ resp' = [Response("exstatus", 200, job_id, "", "")
                   EXCEPT !.nlisted = Len(ListBlobs(bucket, PrefixOf(<<job_id>>, <<>>)))]
    /\ UNCHANGED <<clock, redisUrl, redisUp, jobs, lastWriter, req, accepted,
                   workQueue, workers, eeInitialized, rqQueue, wjobs, taskLog,
                   lastExec, fresh, bucket, archive, exJobs, exTasks,
                   regVars, runs, zipRun>>

\* index is a query parameter of /download-zip: absent, or an index folder.
ExIndexes == { <<>>, <<"NDVI">> }

ExDeliver ==
    /\ ~ExQuiet
    /\ resp' = NoResp
    /\ archive' = NoArchive
    /\ UNCHANGED <<clock, redisUrl, redisUp, jobs, lastWriter, req, accepted,
                   workQueue, workers, eeInitialized, rqQueue, wjobs, taskLog,
                   lastExec, fresh, bucket, exJobs, exTasks, regVars, runs, zipRun>>

NextExporter ==
    \/ ExQuiet /\ Tick
    \/ ExStartReject
    \/ ExStart
    \/ \E i \in 1..Len(exTasks) : TaskCompleted(i)
    \/ \E i \in 1..Len(exTasks) : TaskFailed(i)
    \/ \E job_id \in JobIds : TasksAllCompleted(job_id)
    \/ \E job_id \in AnyId : ExStatus(job_id)
    \/ \E job_id \in AnyId, index \in ExIndexes :
          ExQuiet /\ LegacyDownloadZip(<<job_id>>, index)
    \/ ExDeliver

SpecExporter == InitExporter /\ [][NextExporter]_vars

(***************************************************************************)
(* SpecRegistry: the JobRegistry class (src/app/jobs.py) under concurrent  *)
(* callers.  The class holds no lock; a thread may be switched out between *)
(* any two statements of update, and get hands out the stored dict itself, *)
(* so what a reader serializes is the record as it is at that moment.      *)
(* Spec applies update as one step (RegistryUpdate, the three assignments  *)
(* together); here the assignments are separate steps.                     *)
(***************************************************************************)
MaxRegWrites == 3

\* The (state, message) pairs main.py passes to jobs.update.
UpdateArgs ==
    { [state |-> RUNNING, message |-> "Initializing Earth Engine"],
      [state |-> SUCCEEDED, message |-> "Export complete"],
      [state |-> FAILED, message |-> "Error: x"] }

\* Line 26-28: self._jobs.get(job_id) gives None for a missing key, and
\* update returns on it; nothing on that path raises.
UpdateRaises(reg, job_id) == FALSE

\* Line 29, 30 and 31.
SetState(reg, job_id, state) == [reg EXCEPT ![job_id].state = state]
SetMessage(reg, job_id, message) == [reg EXCEPT ![job_id].message = message]
SetUpdatedAt(reg, job_id) == [reg EXCEPT ![job_id].updated_at = UtcNow]

\* update holds the dict it looked up at line 26; an assignment reaches the
\* registry only while that dict is still the one stored under the id.
StillStored(w) == regProv[workers[w].job_id].obj = workers[w].obj

InitRegistry ==
    /\ clock = 0
    /\ redisUrl = FALSE
    /\ redisUp = TRUE
    /\ jobs = [id \in AnyId |-> NoJob]
    /\ lastWriter = [id \in AnyId |-> "none"]
    /\ req = IdleReq
    /\ accepted = 0
    /\ workQueue = <<>>
    /\ workers = [w \in Workers |-> Idle]
    /\ eeInitialized = FALSE
    /\ rqQueue = <<>>
    /\ wjobs = [id \in AnyId |-> NoJob]
    /\ taskLog = [id \in AnyId |-> {}]
    /\ lastExec = NoExec
    /\ fresh = {}
    /\ resp = NoResp
    /\ bucket = <<>>
    /\ archive = NoArchive
    /\ exJobs = {}
    /\ exTasks = <<>>
    /\ regProv = [id \in AnyId |-> NoProv]
    /\ regSeq = 0
    /\ regCall = NoCall
    /\ runs = <<>>
    /\ zipRun = NoZipRun

RegFrame ==
    UNCHANGED <<clock, redisUrl, redisUp, lastWriter, req, accepted, workQueue,
                eeInitialized, rqQueue, wjobs, taskLog, lastExec, fresh, resp,
                bucket, archive, exJobs, exTasks, runs, zipRun>>

\* create, lines 16-23: one assignment of a new dict under the id.
RegCreate(job_id) ==
    /\ regSeq < MaxRegWrites
    /\ jobs' = RegistryCreate(jobs, job_id)
    /\ regSeq' = regSeq + 1
    /\ regProv' = [regProv EXCEPT ![job_id] =
                      [obj |-> regSeq + 1, state |-> regSeq + 1,
                       message |-> regSeq + 1, updated_at |-> regSeq + 1]]
    /\ regCall' = [NoCall EXCEPT !.op = "create", !.job_id = job_id,
                                 !.found = jobs[job_id] # NoJob]
    /\ UNCHANGED workers
    /\ RegFrame

\* update, lines 26-28, called on thread w: the lookup, and the return when
\* there is no record.
UpdateCall(w, job_id, args) ==
    /\ workers[w].pc = "idle"
    /\ regSeq < MaxRegWrites
    /\ IF RegistryGet(jobs, job_id) = NoJob
       THEN /\ jobs' = RegistryUpdate(jobs, job_id, args.state, args.message)
            /\ regCall' = [NoCall EXCEPT !.op = "update", !.job_id = job_id,
                                         !.raised = UpdateRaises(jobs, job_id)]
            /\ UNCHANGED <<workers, regSeq, regProv>>
       ELSE /\ workers' = [workers EXCEPT ![w] =
                              [pc |-> "state", job_id |-> job_id,
                               state |-> args.state, message |-> args.message,
                               obj |-> regProv[job_id].obj, n |-> regSeq + 1]]
            /\ regSeq' = regSeq + 1
            /\ regCall' = NoCall
            /\ UNCHANGED <<jobs, regProv>>
    /\ RegFrame

\* update, line 29: job["state"] = state.value
UpdateSetState(w) ==
    /\ workers[w].pc = "state"
    /\ workers' = [workers EXCEPT ![w].pc = "message"]
    /\ IF StillStored(w)
       THEN /\ jobs' = SetState(jobs, workers[w].job_id, workers[w].state)
            /\ regProv' = [regProv EXCEPT ![workers[w].job_id].state = workers[w].n]
       ELSE UNCHANGED <<jobs, regProv>>
    /\ regCall' = NoCall
    /\ UNCHANGED regSeq
    /\ RegFrame

\* update, line 30: job["message"] = message
UpdateSetMessage(w) ==
    /\ workers[w].pc = "message"
    /\ workers' = [workers EXCEPT ![w].pc = "updated_at"]
    /\ IF StillStored(w)
       THEN /\ jobs' = SetMessage(jobs, workers[w].job_id, workers[w].message)
            /\ regProv' = [regProv EXCEPT ![workers[w].job_id].message = workers[w].n]
       ELSE UNCHANGED <<jobs, regProv>>
    /\ regCall' = NoCall
    /\ UNCHANGED regSeq
    /\ RegFrame

\* update, line 31: job["updated_at"] = ..., and the return.
UpdateSetUpdatedAt(w) ==
    /\ workers[w].pc = "updated_at"
    /\ workers' = [workers EXCEPT ![w] = Idle]
    /\ IF StillStored(w)
       THEN /\ jobs' = SetUpdatedAt(jobs, workers[w].job_id)
            /\ regProv' = [regProv EXCEPT ![workers[w].job_id].updated_at = workers[w].n]
       ELSE UNCHANGED <<jobs, regProv>>
    /\ regCall' = [NoCall EXCEPT !.op = "update", !.job_id = workers[w].job_id,
                                 !.found = TRUE]
    /\ UNCHANGED regSeq
    /\ RegFrame

\* get, lines 33-34, and the caller serializing what it got (status,
\* src/app/main.py lines 121-124).
RegRead(job_id) ==
    /\ regCall' = [NoCall EXCEPT !.op = "get", !.job_id = job_id,
                                 !.found = RegistryGet(jobs, job_id) # NoJob,
                                 !.record = RegistryGet(jobs, job_id),
                                 !.prov = regProv[job_id]]
    /\ UNCHANGED <<jobs, workers, regSeq, regProv>>
    /\ RegFrame

NextRegistry ==
    \/ \E job_id \in JobIds : RegCreate(job_id)
    \/ \E w \in Workers, job_id \in AnyId, args \in UpdateArgs :
          UpdateCall(w, job_id, args)
    \/ \E w \in Workers : UpdateSetState(w)
    \/ \E w \in Workers : UpdateSetMessage(w)
    \/ \E w \in Workers : UpdateSetUpdatedAt(w)
    \/ \E job_id \in AnyId : RegRead(job_id)

SpecRegistry == InitRegistry /\ [][NextRegistry]_vars

(***************************************************************************)
(* Properties.                                                             *)
(***************************************************************************)
Rank(state) == IF state = QUEUED THEN 0 ELSE IF state = RUNNING THEN 1 ELSE 2

InQueue(q, job_id) == \E i \in 1..Len(q) : q[i].job_id = job_id

\* Nothing is left to run for the job id: no handler, queued item or thread.
Settled(job_id) ==
    /\ req.job_id # job_id
    /\ ~InQueue(workQueue, job_id)
    /\ ~InQueue(rqQueue, job_id)
    /\ \A w \in Workers : workers[w].job_id # job_id

\* C1 (as claimed): in every step the state of every existing record stays or
\* moves forward along QUEUED -> RUNNING -> {SUCCEEDED, FAILED}, and a record
\* in SUCCEEDED or FAILED keeps its state.
C1_StateOnlyMovesForward ==
    [][\A id \in JobIds :
          jobs[id] # NoJob =>
             /\ jobs'[id] # NoJob
             /\ Rank(jobs'[id].state) >= Rank(jobs[id].state)
             /\ (jobs[id].state \in Terminal => jobs'[id].state = jobs[id].state)]_vars

\* C2 (as claimed): the first /status read after /start has returned reports
\* QUEUED or RUNNING.
C2_FirstStatusNotTerminal ==
    (resp.ep = "status" /\ resp.first) => resp.state \in {QUEUED, RUNNING}

\* C2 (amended): the first /status read after /start has returned finds the
\* record, and reports QUEUED or RUNNING unless, in the local strategy, a run
\* of the pipeline on a pool thread has already written the record's state;
\* the states written by /start itself (create, dispatch) are QUEUED and
\* RUNNING only.
C2_FirstStatusAmended ==
    /\ (resp.ep = "status" /\ resp.first) =>
          /\ resp.code = 200
          /\ \/ resp.state \in {QUEUED, RUNNING}
             \/ ~redisUrl /\ lastWriter[resp.job_id] = "pipeline"
    /\ \A id \in JobIds :
          (jobs[id] # NoJob /\ lastWriter[id] \in {"create", "dispatch"})
             => jobs[id].state \in {QUEUED, RUNNING}

C2_Witness ==
    resp.ep = "status" /\ resp.first /\ resp.state \in Terminal

\* C3 (as claimed): /download-zip for a job that has not succeeded answers
\* 409 and carries no archive, whatever the bucket holds under the prefix:
\* in the VisionZones service for a record whose state is not SUCCEEDED, in
\* the indices exporter for a job some of whose exports have not completed.
C3_NotReadyIsConflict ==
    /\ (/\ resp.ep = "download"
        /\ jobs[resp.job_id] # NoJob
        /\ jobs[resp.job_id].state # SUCCEEDED)
           => (resp.code = 409 /\ ~resp.zip /\ resp.names = <<>>)
    /\ (/\ archive.fn = "download_zip"
        /\ \E i \in 1..Len(exTasks) :
              <<exTasks[i].job_id>> = archive.job_id /\ exTasks[i].state # "COMPLETED")
           => (archive.code = 409 /\ archive.entries = <<>>)

\* C4 (as claimed): the registry's get gives the not-found value for every id
\* that was never created, and /status for an id no /start ever generated
\* answers 404 with no record, in the VisionZones service and in the indices
\* exporter.
C4_UnknownIsNotFound ==
    /\ \A id \in AnyId :
          lastWriter[id] = "none" => RegistryGet(jobs, id) = NoJob
    /\ (resp.ep = "status" /\ lastWriter[resp.job_id] = "none")
          => (resp.code = 404 /\ resp.state = "")
    /\ (resp.ep = "exstatus" /\ resp.job_id \notin exJobs)
          => resp.code = 404

\* C5 (as claimed): once a remote task started for a job id has reported
\* FAILED and nothing is left to run for that id, the job's state is FAILED:
\* in the registry of the VisionZones service, and in what the indices
\* exporter's /status reports once every export of the job is resolved.
C5_TaskFailureFailsJob ==
    /\ \A id \in JobIds :
          ("FAILED" \in taskLog[id] /\ Settled(id)) => jobs[id].state = FAILED
    /\ (/\ resp.ep = "exstatus"
        /\ \E i \in 1..Len(exTasks) :
              exTasks[i].job_id = resp.job_id /\ exTasks[i].state = "FAILED"
        /\ \A i \in 1..Len(exTasks) :
              exTasks[i].job_id = resp.job_id => exTasks[i].state # "RUNNING")
           => resp.state = FAILED

\* C6: a run of the pipeline body that has ended issued exactly one update,
\* a terminal one; no exception left it; an exception raised in the body
\* became the FAILED update with "Error: " and the exception's message,
\* no exception the SUCCEEDED update; and on a pool thread that update is
\* what the registry then holds.
C6_OneTerminalUpdate ==
    lastExec.proc # "none" =>
       /\ Len(lastExec.issued) = 1
       /\ lastExec.issued[1].state \in Terminal
       /\ ~lastExec.escaped
       /\ lastExec.exc # "none" =>
             lastExec.issued[1] = [state |-> FAILED,
                                   message |-> "Error: " \o lastExec.exc]
       /\ lastExec.exc = "none" => lastExec.issued[1].state = SUCCEEDED
       /\ lastExec.proc = "pool" =>
             /\ jobs[lastExec.job_id].state = lastExec.issued[1].state
             /\ jobs[lastExec.job_id].message = lastExec.issued[1].message

C6_Witness ==
    /\ lastExec.proc = "pool"
    /\ lastExec.exc = "invalid geometry"
    /\ jobs[lastExec.job_id].state = FAILED

\* The key with the first n atoms of the listing prefix removed.
Stripped(key, prefix) == SubSeq(key, Len(prefix) + 1, Len(key))

\* The key from the atom after its first "/" on.
AfterFirstSlash(key) ==
    LET i == CHOOSE j \in 1..Len(key) :
                 key[j] = "/" /\ \A k \in 1..(j - 1) : key[k] # "/" IN
    SubSeq(key, i + 1, Len(key))

EntriesOf(key) == {j \in 1..Len(archive.entries) : archive.entries[j].key = key}

\* C7 (as claimed): the archive has one entry per listed object, each listed
\* object exactly once, named by its key with the job prefix (and the index
\* prefix, when scoped) stripped.
C7_ArchiveMirrorsListing ==
    archive.code = 200 =>
       /\ Len(archive.entries) = Len(archive.listed)
       /\ \A i \in 1..Len(archive.listed) :
             Cardinality(EntriesOf(archive.listed[i])) = 1
       /\ \A j \in 1..Len(archive.entries) :
             archive.entries[j].name =
                Stripped(archive.entries[j].key,
                         PrefixOf(archive.job_id, archive.index))

\* C7 (amended): zip_gcs_prefix gives one entry, in listing order, to each
\* listed object whose key does not end in "/" (keys ending in "/" get none),
\* named by its key with the listing prefix stripped; the indices exporter's
\* download_zip gives one entry to every listed object, named by its key
\* with only the first path segment (the job id) stripped, so the index
\* folder stays in the name when the listing is scoped to an index.
C7_ArchiveAmended ==
    /\ archive.fn = "zip_gcs_prefix" =>
          LET kept == SelectSeq(archive.listed, LAMBDA key : ~EndsWithSlash(key)) IN
          /\ Len(archive.entries) = Len(kept)
          /\ \A i \in 1..Len(kept) :
                /\ archive.entries[i].key = kept[i]
                /\ Cardinality(EntriesOf(kept[i])) = 1
                /\ archive.entries[i].name =
                      Stripped(kept[i], PrefixOf(archive.job_id, <<>>))
    /\ (archive.fn = "download_zip" /\ archive.code = 200) =>
          /\ Len(archive.entries) = Len(archive.listed)
          /\ \A i \in 1..Len(archive.listed) :
                /\ archive.entries[i].key = archive.listed[i]
                /\ Cardinality(EntriesOf(archive.listed[i])) = 1
                /\ archive.entries[i].name = AfterFirstSlash(archive.listed[i])

C7_Witness ==
    /\ archive.fn = "download_zip"
    /\ archive.index = <<"N">>
    /\ archive.code = 200
    /\ Len(archive.entries) = 3
    /\ \E j \in 1..Len(archive.entries) :
          archive.entries[j].name = <<"N", "/", "f">>

\* C8 (as claimed): /download-zip for a SUCCEEDED job under whose prefix
\* nothing is listed answers 404 and sends no archive; so does the indices
\* exporter's /download-zip whenever its listing is empty.
C8_EmptyListingIsNotFound ==
    /\ (/\ resp.ep = "download"
        /\ jobs[resp.job_id] # NoJob
        /\ jobs[resp.job_id].state = SUCCEEDED
        /\ resp.nlisted = 0)
           => (resp.code = 404 /\ ~resp.zip)
    /\ (archive.fn = "download_zip" /\ archive.listed = <<>>)
           => (archive.code = 404 /\ archive.entries = <<>>)

\* C9 (as claimed): when /start dispatches with REDIS_URL set and Redis
\* unreachable, the handler goes on to return and the job is on the local
\* pool's queue.
C9_UnreachableFallsBackToPool ==
    [][(/\ req.pc = "created"
        /\ req'.pc # "created"
        /\ redisUrl
        /\ ~redisUp)
          => (req'.pc = "dispatched" /\ InQueue(workQueue', req.job_id))]_vars

\* C10: every 200 response of /start names the created job with status
\* QUEUED, in both strategies, and once the job is dispatched the handler
\* can return at once, whatever the job's state is by then.
C10_StartReturnsQueued ==
    /\ (resp.ep = "start" /\ resp.code = 200) =>
          /\ resp.state = QUEUED
          /\ jobs[resp.job_id] # NoJob
    /\ (req.pc = "dispatched" /\ Quiet) => ENABLED StartReturn

C10_Witness ==
    /\ resp.ep = "start"
    /\ resp.code = 200
    /\ jobs[resp.job_id].state = RUNNING
    /\ \E w \in Workers :
          workers[w].job_id = resp.job_id /\ workers[w].pc = "poll"

\* C11 (as claimed): a /start request answered 400 (input error) or 500
\* (missing configuration) leaves the registry as it was, and a payload for
\* which a record is created is one _geom_from_geojson resolves.
C11_RejectedNeverEntersRegistry ==
    [][/\ (/\ resp'.ep = "start"
           /\ resp'.detail \in {"Invalid input", "Missing env var"})
              => jobs' = jobs
       /\ (req.pc = "idle" /\ req'.pc = "created")
              => req'.geojson = "valid"]_vars

\* C12 (as claimed): the job id given to an accepted submission is one no
\* earlier accepted submission was given: at the moment of jobs.create no
\* record exists under it (records are never removed), so no submission's
\* record is overwritten by another's.
C12_JobIdsDistinct ==
    [][(req.pc = "idle" /\ req'.pc = "created")
          => jobs[req'.job_id] = NoJob]_vars

\* C13: a call of update for a job id that has no record returns without
\* raising and leaves the whole registry as it was: no record appears under
\* the id and no other record changes, whatever other updates are under way.
\* The queue worker's pipeline runs, whose every update is of this kind,
\* leave the worker process's registry as it was.
C13_UpdateUnknownIsNoOp ==
    [][/\ (regCall'.op = "update" /\ ~regCall'.found)
             => (jobs' = jobs /\ ~regCall'.raised)
       /\ lastExec'.proc = "rq" => wjobs' = wjobs]_vars

C13_Witness ==
    /\ regCall.op = "update"
    /\ ~regCall.found
    /\ jobs[regCall.job_id] = NoJob
    /\ \E id \in JobIds : jobs[id] # NoJob
    /\ \E w \in Workers : workers[w].pc = "message"

\* C14 (as claimed): a record that get hands to a reader has its state,
\* message and updated_at from one and the same registry write.
C14_NoTornRead ==
    (regCall.op = "get" /\ regCall.found)
       => /\ regCall.prov.state = regCall.prov.message
          /\ regCall.prov.message = regCall.prov.updated_at

\* C15 (as claimed): once the queue worker's run of a job's pipeline has
\* ended (normally, by an exception or by the queue's timeout) and nothing is
\* left to run for that job id, the record that /status reads is SUCCEEDED
\* or FAILED.
C15_WorkerOutcomeVisible ==
    (lastExec.proc = "rq" /\ Settled(lastExec.job_id))
       => /\ jobs[lastExec.job_id] # NoJob
          /\ jobs[lastExec.job_id].state \in Terminal

\* The number of years of a request, range(start_year, end_year + 1).
YearsOf(years) == IF years[2] >= years[1] THEN years[2] - years[1] + 1 ELSE 0

Triple(task) == <<task.y, task.m, task.idx>>

\* C16 (as claimed): an indices export answered 200 for N years and M
\* indices has started exactly N*12*M tasks, no two of them for the same
\* (year, month, index) triple; for 1 year and 1 index exactly 12.
C16_StartsNx12xMTasks ==
    (resp.ep = "exstart" /\ resp.code = 200) =>
       LET N == YearsOf(resp.years)
           M == Len(resp.indices)
           started == resp.started IN
       /\ Len(started) = N * 12 * M
       /\ \A i, j \in 1..Len(started) :
             i # j => Triple(started[i]) # Triple(started[j])
       /\ (N = 1 /\ M = 1) => Len(started) = 12

\* C17 (as claimed): a job whose registry record is SUCCEEDED has had every
\* remote task started for it report COMPLETED; and a run of the pipeline
\* whose task ended in any other terminal state did not issue SUCCEEDED.
C17_SucceededMeansAllCompleted ==
    /\ \A id \in JobIds :
          (taskLog[id] # {} /\ jobs[id].state = SUCCEEDED)
             => taskLog[id] = {"COMPLETED"}
    /\ \A taskState \in TaskTerminal \ {"COMPLETED"} :
          (lastExec.proc = "pool" /\ lastExec.exc = ExportResult(taskState))
             => /\ \A k \in 1..Len(lastExec.issued) :
                      lastExec.issued[k].state # SUCCEEDED
                /\ jobs[lastExec.job_id].state # SUCCEEDED

\* The pool threads inside _start_sync_job: begun, terminal update not yet
\* issued.
Executing == { w \in Workers : workers[w].pc # "idle" }

\* C18 (as claimed): with the local strategy at most 2 pipelines execute at
\* the same time, and while both threads are busy every further submitted
\* job, waiting for a thread, is QUEUED in the registry.
C18_AtMostTwoPipelines ==
    /\ Cardinality(Executing) <= 2
    /\ (Executing = Workers) =>
          \A k \in 1..Len(workQueue) :
             jobs[workQueue[k].job_id].state = QUEUED

\* The output key of a started task.
KeyOf(task) == ExKey(task.job_id, task.idx, task.y, task.m)

\* C19 (as claimed): the tasks a request starts are in the order fixed by
\* the request alone (year outermost, then month 1..12, then index in
\* request order), each with the output key of its year, month and index,
\* and no two tasks of the job share an output key.
C19_FixedOrderDistinctKeys ==
    (resp.ep = "exstart" /\ "started" \in DOMAIN resp) =>
       LET started == resp.started
           M == Len(resp.indices) IN
       /\ \A i \in 1..Len(started) :
             LET k == i - 1 IN
             /\ started[i].y = resp.years[1] + (k \div (12 * M))
             /\ started[i].m = ((k \div M) % 12) + 1
             /\ started[i].idx = resp.indices[(k % M) + 1]
       /\ \A i, j \in 1..Len(started) :
             i # j => KeyOf(started[i]) # KeyOf(started[j])

\* C20: no accepted submission has its pipeline begun more than once, or
\* more than one remote task started for it, by the pool or by the queue's
\* retry; in particular a run that ended FAILED because its remote task
\* failed is the only run of its submission, and the submission is neither
\* waiting in a queue nor on a pool thread again.
C20_NoPipelineRerun ==
    /\ \A s \in 1..Len(runs) : runs[s].begun <= 1 /\ runs[s].tasks <= 1
    /\ \A taskState \in TaskTerminal \ {"COMPLETED"} :
          lastExec.exc = ExportResult(taskState) =>
             /\ runs[lastExec.sub] = [begun |-> 1, tasks |-> 1]
             /\ \A k \in 1..Len(workQueue) : workQueue[k].sub # lastExec.sub
             /\ \A k \in 1..Len(rqQueue) : rqQueue[k].sub # lastExec.sub
             /\ \A w \in Workers : workers[w].sub # lastExec.sub

C20_Witness ==
    /\ lastExec.proc = "rq"
    /\ lastExec.exc = ExportResult("FAILED")
    /\ lastExec.issued = <<[state |-> FAILED,
                            message |-> "Error: Raster export failed: FAILED"]>>
    /\ runs[lastExec.sub].begun = 1
    /\ \E s \in 1..Len(runs) :
          s # lastExec.sub /\ runs[s].begun = 1 /\ runs[s].tasks = 1

\* The source objects whose bytes the generator holds and has not yet handed
\* to the response.
Unflushed == Len(zipRun.mem) - zipRun.sent

\* C21 (as claimed): at every point of a download at most one source object
\* is held in memory that has not yet been flushed to the output stream.
C21_AtMostOneUnflushed == Unflushed <= 1

\* C22: with the local strategy, under fair scheduling of the pool's threads
\* and every started remote task eventually reporting non-active, a record
\* created by /start eventually reads SUCCEEDED or FAILED, whatever was
\* submitted ahead of it.
C22_EveryJobTerminates ==
    \A id \in JobIds :
       (jobs[id] # NoJob) ~> (jobs[id] # NoJob /\ jobs[id].state \in Terminal)

C22_Witness ==
    /\ Len(runs) = 3
    /\ lastExec.proc = "pool"
    /\ lastExec.sub = 3
    /\ runs[1].begun = 1 /\ runs[2].begun = 1
    /\ jobs[lastExec.job_id].state \in Terminal

\* The job id under which submission s is being run.
SubJobId(s) ==
    IF \E w \in Workers : workers[w].sub = s
    THEN workers[CHOOSE w \in Workers : workers[w].sub = s].job_id
    ELSE Head(rqQueue).job_id

\* C23 (as claimed): in both dispatch strategies, whenever a remote task is
\* started for a job, the job's record in the registry no longer reads
\* QUEUED.
C23_RunningBeforeTaskStart ==
    [][\A s \in 1..Len(runs) :
          runs'[s].tasks > runs[s].tasks
             => jobs[SubJobId(s)].state # QUEUED]_vars

\* C24 (as claimed): ee.Initialize completes at most once per process, so a
\* pool thread completes it only while _ee_initialized is still false; and
\* an initialisation that raised leaves the flag as it was.
C24_InitialisedOnce ==
    [][\A w \in Workers :
          /\ (workers[w].pc = "ee" /\ workers'[w].pc = "export")
                => ~eeInitialized
          /\ (workers[w].pc = "ee" /\ workers'[w].pc = "idle")
                => eeInitialized' = eeInitialized]_vars

====
